---- MODULE Spec2Model ----
(***************************************************************************)
(* Job-posting lifecycle of the Kamashka backend: JobPosting.save          *)
(* (main/models.py), the public listing queries and the maintenance        *)
(* helper (main/views.py) and the expiration sweep management command      *)
(* (main/management/commands/expiry_jobs.py).                              *)
(*                                                                         *)
(* Time is counted in whole days.  Titles and slugs are sequences of       *)
(* one-character strings.                                                  *)
(***************************************************************************)
EXTENDS Integers, Sequences, FiniteSets, TLC

\* ------------------------------------------------------------------ bounds
MaxTime == 2          \* the clock runs over 0..MaxTime
MaxPostings == 2      \* primary keys handed out: 1..MaxPostings
NumProcs == 2         \* concurrent save() calls in SpecConc
MaxApplications == 2  \* applications accepted: primary keys 1..MaxApplications
MaxBlogPosts == 2     \* blog posts: primary keys 1..MaxBlogPosts

\* ------------------------------------------------------------ basic values
NULL == -1            \* expiration_date = None

Times == 0..MaxTime
ExpirationDates == {NULL} \cup Times

\* titles an operator may type; they cover: a plain title, a second title
\* with the same slug, a title whose slug looks like a suffixed slug, and a
\* title that slugifies to the empty string
Titles == { <<"I", "n">>, <<"i", "n">>, <<"I", "n", " ", "1">>, <<"!">> }

\* the title used where the slug plays no part
PlainTitles == { <<"I", "n">> }

DaysAheadChoices == {0, 1, 7}

\* fields of the JobPosting model that the model keeps
JobPostingFields == {"title", "slug", "is_active", "expiration_date"}

\* ----------------------------------------------------------------- slugify
Lower(c) == CASE c = "I" -> "i"
              [] c = "N" -> "n"
              [] OTHER -> c

IsSpaceOrHyphen(c) == c \in {" ", "-"}

\* \w of the regular expression, after lower-casing
IsWordChar(c) == c \in {"i", "n", "_", "0", "1", "2", "3", "4", "5", "6", "7", "8", "9"}

RECURSIVE MapLower(_)
MapLower(s) == IF s = <<>> THEN <<>> ELSE <<Lower(Head(s))>> \o MapLower(Tail(s))

\* re.sub(r"[^\w\s-]", "", value)
RECURSIVE DropOther(_)
DropOther(s) ==
    IF s = <<>> THEN <<>>
    ELSE IF IsWordChar(Head(s)) \/ IsSpaceOrHyphen(Head(s))
         THEN <<Head(s)>> \o DropOther(Tail(s))
         ELSE DropOther(Tail(s))

\* re.sub(r"[-\s]+", "-", value)
RECURSIVE CollapseRuns(_)
CollapseRuns(s) ==
    IF s = <<>> THEN <<>>
    ELSE IF IsSpaceOrHyphen(Head(s))
         THEN IF Len(s) > 1 /\ IsSpaceOrHyphen(s[2])
              THEN CollapseRuns(Tail(s))
              ELSE <<"-">> \o CollapseRuns(Tail(s))
         ELSE <<Head(s)>> \o CollapseRuns(Tail(s))

\* .strip("-_")
RECURSIVE StripLeft(_)
StripLeft(s) == IF s # <<>> /\ Head(s) \in {"-", "_"} THEN StripLeft(Tail(s)) ELSE s

RECURSIVE StripRight(_)
StripRight(s) ==
    IF s # <<>> /\ s[Len(s)] \in {"-", "_"} THEN StripRight(SubSeq(s, 1, Len(s) - 1)) ELSE s

slugify(title) == StripRight(StripLeft(CollapseRuns(DropOther(MapLower(title)))))

\* str(num) inside the f-string
DigitChars == <<"0", "1", "2", "3", "4", "5", "6", "7", "8", "9">>

RECURSIVE ToStr(_)
ToStr(n) == IF n < 10 THEN <<DigitChars[n + 1]>>
            ELSE ToStr(n \div 10) \o <<DigitChars[(n % 10) + 1]>>

\* f"{base_slug}-{num}"
Suffixed(base_slug, num) == base_slug \o <<"-">> \o ToStr(num)

\* --------------------------------------------------------------- the state
VARIABLES
    now,        \* timezone.now(), in days
    postings,   \* the JobPosting table: pk -> row
    next_pk,    \* the next primary key the table hands out
    inflight,   \* SpecConc: save() calls between their slug scan and their write
    last,       \* the operation that produced this state, its inputs and outcome
    applications,  \* the JobApplication table: pk -> row
    next_app_pk,   \* the next primary key of the JobApplication table
    blog_posts     \* the BlogPost table: pk -> row

vars == <<now, postings, next_pk, inflight, last, applications, next_app_pk, blog_posts>>

Procs == 1..NumProcs

Row(title, slug, is_active, expiration_date) ==
    [title |-> title, slug |-> slug, is_active |-> is_active,
     expiration_date |-> expiration_date]

NoOutput == <<>>

\* a process that is not inside save()
Idle == [state |-> "idle"]

\* a process whose save() has run lines 43-54 and has not written yet
Scanned(row) == [state |-> "scanned", row |-> row]

\* the record kept in last: which operation ran, on which row, with which
\* supplied is_active and slug, what it raised, what it wrote to stdout and
\* which rows a query returned
Op(op, pk, is_active, slug, raised, streak) ==
    [op |-> op, pk |-> pk, is_active |-> is_active, slug |-> slug,
     raised |-> raised, streak |-> streak,
     dry_run |-> FALSE, send_alerts |-> FALSE, out |-> NoOutput, result |-> {},
     days_ahead |-> 0, mail_ok |-> TRUE,
     http |-> 0, errors |-> {}, sent |-> <<>>, req |-> <<>>, key |-> <<>>]

\* ------------------------------------------------------- JobPosting.save()
\* JobPosting.objects.filter(slug=unique_slug).exists()
SlugExists(store, s) == \E k \in DOMAIN store : store[k].slug = s

RECURSIVE NextUnused(_, _, _)
NextUnused(store, base_slug, num) ==
    IF SlugExists(store, Suffixed(base_slug, num))
    THEN NextUnused(store, base_slug, num + 1)
    ELSE Suffixed(base_slug, num)

\* variant: the counter starts at 2
UniqueSlug_FromTwo(store, base_slug) ==
    IF SlugExists(store, base_slug) THEN NextUnused(store, base_slug, 2) ELSE base_slug

\* lines 44-50: the while loop
UniqueSlug(store, base_slug) ==
    IF SlugExists(store, base_slug) THEN NextUnused(store, base_slug, 1) ELSE base_slug

\* variant: the slug is recomputed from the title on every save
AssignSlug_Always(store, instance) == UniqueSlug(store, slugify(instance.title))

\* "if not self.slug": the empty string is falsy
AssignSlug(store, instance) ==
    IF instance.slug = <<>> THEN UniqueSlug(store, slugify(instance.title))
    ELSE instance.slug

\* "if self.expiration_date and self.expiration_date <= timezone.now()"
\* (a datetime is always truthy, None is falsy)
IsExpiredAt(expiration_date, t) == expiration_date # NULL /\ expiration_date <= t

\* variant: the comparison is strict
AutoDeactivate_Strict(instance, t) ==
    IF instance.expiration_date # NULL /\ instance.expiration_date < t
    THEN FALSE ELSE instance.is_active

AutoDeactivate(instance, t) ==
    IF IsExpiredAt(instance.expiration_date, t) THEN FALSE ELSE instance.is_active

\* variant: the auto-deactivation is left out
PreSave_SlugOnly(store, instance, t) ==
    [instance EXCEPT !.slug = AssignSlug(store, instance)]

\* lines 43-54: what save() does to the instance before super().save()
PreSave(store, instance, t) ==
    [instance EXCEPT !.slug = AssignSlug(store, instance),
                     !.is_active = AutoDeactivate(instance, t)]

\* unique=True on slug: the write is refused when another row holds the slug
UniqueViolation(store, pk, row) ==
    \E k \in DOMAIN store : k # pk /\ store[k].slug = row.slug

\* super().save(): insert or update the row pk
Written(store, pk, row) ==
    [k \in DOMAIN store \cup {pk} |-> IF k = pk THEN row ELSE store[k]]

\* ------------------------------------------------------ queryset filters
\* a keyword that names no model field makes filter() raise FieldError
FieldError(field) == field \notin JobPostingFields

\* reading an attribute the instance does not have raises AttributeError
AttributeError(attr) == attr \notin JobPostingFields

\* filter(is_active=True)
FilterActive(store) == {pk \in DOMAIN store : store[pk].is_active}

\* filter(<field>__isnull=True)
FilterIsNull(store, field) == {pk \in DOMAIN store : store[pk][field] = NULL}

\* filter(<field>__lte=v): a NULL column never matches a comparison
FilterLte(store, field, v) ==
    {pk \in DOMAIN store : store[pk][field] # NULL /\ store[pk][field] <= v}

\* filter(<field>__gt=v)
FilterGt(store, field, v) ==
    {pk \in DOMAIN store : store[pk][field] # NULL /\ store[pk][field] > v}

\* variant: the UPDATE also clears the expiration date
UpdateInactive_ClearsDate(store, pks) ==
    [k \in DOMAIN store |->
        IF k \in pks THEN [store[k] EXCEPT !.is_active = FALSE, !.expiration_date = NULL]
        ELSE store[k]]

\* queryset.update(is_active=False): one UPDATE over the matching rows,
\* which does not go through save()
UpdateInactive(store, pks) ==
    [k \in DOMAIN store |-> IF k \in pks THEN [store[k] EXCEPT !.is_active = FALSE]
                            ELSE store[k]]

\* ------------------------------------------------------- public read views
\* variant: the second branch forgets is_active=True
JobPostingList_AnyFuture(store, t) ==
    (FilterActive(store) \cap FilterIsNull(store, "expiration_date"))
        \cup FilterGt(store, "expiration_date", t)

\* JobPostingList.get_queryset: the "|" of two querysets
JobPostingList(store, t) ==
    (FilterActive(store) \cap FilterIsNull(store, "expiration_date"))
        \cup (FilterActive(store) \cap FilterGt(store, "expiration_date", t))

\* JobPostingDetail.get_queryset
JobPostingDetail(store, t) ==
    (FilterActive(store) \cap FilterIsNull(store, "expiration_date"))
        \cup (FilterActive(store) \cap FilterGt(store, "expiration_date", t))

\* ------------------------------------------------ the expiration sweep job
\* the name the command uses in its filter keywords (expires_at__lte, ...)
SweepLookupField == "expires_at"

\* the attribute the command reads from a job (job.expires_at)
SweepAttribute == "expires_at"

Msg(msg, n) == [msg |-> msg, n |-> n]

\* lines 59-85 of handle() together with send_expiration_alert: what the
\* alert step writes to stdout
AlertOutput(store, t, days_ahead, mail_ok) ==
    LET expiring_soon == (FilterGt(store, SweepLookupField, t)
                            \cap FilterLte(store, SweepLookupField, t + days_ahead))
                            \cap FilterActive(store)
        expiring_count == Cardinality(expiring_soon)
    IN IF expiring_count > 0
       THEN <<Msg("expiring_soon", expiring_count)>>
              \o (IF AttributeError(SweepAttribute) \/ ~mail_ok
                  THEN <<Msg("alert_failed", expiring_count)>>
                  ELSE <<Msg("alert_sent", expiring_count)>>)
       ELSE <<Msg("none_expiring", 0)>>

\* lines 87-96: the summary
SummaryOutput(store, t, expired_count) ==
    << Msg("active", Cardinality(FilterActive(store))),
       Msg("total_expired", Cardinality(FilterLte(store, SweepLookupField, t))),
       Msg("processed", expired_count) >>

\* variant: the command starts by calling the maintenance helper of views.py
handle_HelperFirst(store, t, dry_run, send_alerts, days_ahead, mail_ok) ==
    [store |-> UpdateInactive(store,
                  FilterActive(store) \cap FilterLte(store, "expiration_date", t)),
     raised |-> IF FieldError(SweepLookupField) THEN "FieldError" ELSE "none",
     out |-> NoOutput]

\* Command.handle(): the table it leaves, what it raised and what it wrote
handle(store, t, dry_run, send_alerts, days_ahead, mail_ok) ==
    IF FieldError(SweepLookupField)
    THEN [store |-> store, raised |-> "FieldError", out |-> NoOutput]
    ELSE
      LET expired_jobs == FilterLte(store, SweepLookupField, t) \cap FilterActive(store)
          expired_count == Cardinality(expired_jobs)
      IN IF dry_run /\ expired_count > 0 /\ AttributeError(SweepAttribute)
         THEN [store |-> store, raised |-> "AttributeError",
               out |-> <<Msg("dry_run", expired_count)>>]
         ELSE
           LET store2 == IF dry_run THEN store ELSE UpdateInactive(store, expired_jobs)
               out1 == IF dry_run THEN <<Msg("dry_run", expired_count)>>
                       ELSE <<Msg("expired", expired_count)>>
               out2 == IF send_alerts THEN AlertOutput(store2, t, days_ahead, mail_ok)
                       ELSE NoOutput
           IN [store |-> store2, raised |-> "none",
               out |-> out1 \o out2 \o SummaryOutput(store2, t, expired_count)]

\* ------------------------------------------------------ application intake
\* e-mail addresses an applicant may type: none, no "@", a one-letter
\* top-level domain, a well-formed address
Emails == { <<>>, <<"a">>, <<"a", "@", "b", ".", "c">>,
            <<"a", "@", "b", ".", "c", "o">> }

\* extensions of the uploaded resume ("" stands for no file or no extension)
ResumeExtensions == {"", "pdf", "PDF", "exe"}

\* status values a request body may carry ("" stands for none)
SuppliedStatuses == {"", "hired"}

\* what happens to the notifications of one submission
MailOutcomes == {"ok", "render_fails", "applicant_fails", "admin_fails"}

\* statuses the operator sets in the admin
AdminStatuses == {"pending", "reviewed"}

Request(job_posting, full_name, email, phone, resume, status) ==
    [job_posting |-> job_posting, full_name |-> full_name, email |-> email,
     phone |-> phone, resume |-> resume, status |-> status]

AtPositions(e) == {i \in DOMAIN e : e[i] = "@"}

DotPositions(e) == {i \in DOMAIN e : e[i] = "."}

\* EmailField: one "@", a non-empty user part, and a domain made of
\* non-empty labels that ends in a top-level domain of two characters or more
ValidEmail(e) ==
    /\ Cardinality(AtPositions(e)) = 1
    /\ LET at == CHOOSE i \in AtPositions(e) : TRUE
           dots == {i \in DotPositions(e) : i > at}
       IN /\ at > 1
          /\ DotPositions(e) = dots
          /\ dots # {}
          /\ \A i \in dots : i > at + 1 /\ i < Len(e) /\ (i + 1) \notin dots
          /\ \A i \in dots : (\A j \in dots : j <= i) => Len(e) - i >= 2

\* FileExtensionValidator lower-cases the extension before comparing
ExtensionLower(x) == CASE x = "PDF" -> "pdf"
                       [] OTHER -> x

AllowedExtensions == {"pdf", "doc", "docx"}

\* variant: the resume field carries no extension validator
ValidationErrors_AnyFile(store, req) ==
    {f \in {"job_posting"} : req.job_posting \notin DOMAIN store}
      \cup {f \in {"full_name"} : ~req.full_name}
      \cup {f \in {"phone"} : ~req.phone}
      \cup {f \in {"email"} : ~ValidEmail(req.email)}
      \cup {f \in {"resume"} : req.resume = ""}

\* serializer.is_valid(): the fields that carry an error; status is
\* read-only and is not looked at
ValidationErrors(store, req) ==
    {f \in {"job_posting"} : req.job_posting \notin DOMAIN store}
      \cup {f \in {"full_name"} : ~req.full_name}
      \cup {f \in {"phone"} : ~req.phone}
      \cup {f \in {"email"} : ~ValidEmail(req.email)}
      \cup {f \in {"resume"} : ExtensionLower(req.resume) \notin AllowedExtensions}

\* variant: status is writable
NewApplication_StatusWritable(req) ==
    [job_posting |-> req.job_posting,
     status |-> IF req.status = "" THEN "pending" ELSE req.status]

\* serializer.save(): status is not among the validated data, the model
\* default applies
NewApplication(req) == [job_posting |-> req.job_posting, status |-> "pending"]

Send(to, ok) == [to |-> to, ok |-> ok]

\* lines 64-116: the sends attempted inside the single try block
Notifications(outcome) ==
    CASE outcome = "render_fails" -> <<>>
      [] outcome = "applicant_fails" -> <<Send("applicant", FALSE)>>
      [] outcome = "admin_fails" -> <<Send("applicant", TRUE), Send("admin", FALSE)>>
      [] OTHER -> <<Send("applicant", TRUE), Send("admin", TRUE)>>

\* variant: the sends are outside the try block
SubmitResult_MailFatal(store, apps, app_pk, req, outcome) ==
    LET errors == ValidationErrors(store, req)
    IN IF errors # {}
       THEN [apps |-> apps, http |-> 400, errors |-> errors, sent |-> <<>>]
       ELSE [apps |-> [k \in DOMAIN apps \cup {app_pk} |->
                          IF k = app_pk THEN NewApplication(req) ELSE apps[k]],
             http |-> IF outcome = "ok" THEN 201 ELSE 500,
             errors |-> {}, sent |-> Notifications(outcome)]

\* what submit_job_application answers and leaves behind
SubmitResult(store, apps, app_pk, req, outcome) ==
    LET errors == ValidationErrors(store, req)
    IN IF errors # {}
       THEN [apps |-> apps, http |-> 400, errors |-> errors, sent |-> <<>>]
       ELSE [apps |-> [k \in DOMAIN apps \cup {app_pk} |->
                          IF k = app_pk THEN NewApplication(req) ELSE apps[k]],
             http |-> 201, errors |-> {}, sent |-> Notifications(outcome)]

\* ------------------------------------------------------------------- blog
\* slugs of blog posts and keys of the detail URL
BlogSlugs == { <<"a">>, <<"1">>, <<"2">> }

\* one-letter texts of title, content and author; categories ("" is none)
BlogTexts == {"x", "y"}

BlogCategories == {"", "c"}

\* values of the category, author and search query parameters ("" is none)
CategoryParams == {"", "C"}

TextParams == {"", "X", "y"}

BlogRow(slug, is_published, category, title, content) ==
    [slug |-> slug, is_published |-> is_published, category |-> category,
     title |-> title, content |-> content, author |-> "x"]

\* case folding of iexact and icontains on the texts above
TextLower(x) == CASE x = "X" -> "x"
                  [] x = "Y" -> "y"
                  [] x = "C" -> "c"
                  [] OTHER -> x

Published(blog) == {pk \in DOMAIN blog : blog[pk].is_published}

\* BlogPostList.get_queryset
BlogPostList(blog, category, author, search) ==
    LET q0 == Published(blog)
        q1 == IF category # ""
              THEN {pk \in q0 : TextLower(blog[pk].category) = TextLower(category)}
              ELSE q0
        q2 == IF author # ""
              THEN {pk \in q1 : TextLower(blog[pk].author) = TextLower(author)}
              ELSE q1
    IN IF search # ""
       THEN {pk \in q2 : TextLower(blog[pk].title) = TextLower(search)}
              \cup {pk \in q2 : TextLower(blog[pk].content) = TextLower(search)}
       ELSE q2

DigitValue(c) == CHOOSE n \in 0..9 : DigitChars[n + 1] = c

IsDigits(key) == key # <<>> /\ \A i \in DOMAIN key : \E n \in 0..9 : DigitChars[n + 1] = key[i]

\* int(slug) for a key made of digits
RECURSIVE ParseInt(_)
ParseInt(key) ==
    IF Len(key) = 1 THEN DigitValue(key[1])
    ELSE 10 * ParseInt(SubSeq(key, 1, Len(key) - 1)) + DigitValue(key[Len(key)])

\* variant: the id fallback does not ask for is_published
get_object_AnyId(blog, key) ==
    LET by_slug == {pk \in Published(blog) : blog[pk].slug = key}
    IN IF by_slug # {} THEN by_slug
       ELSE IF ~IsDigits(key) THEN {}
       ELSE {pk \in DOMAIN blog : pk = ParseInt(key)}

\* BlogPostDetail.get_object: the post found (the empty set stands for Http404)
get_object(blog, key) ==
    LET by_slug == {pk \in Published(blog) : blog[pk].slug = key}
    IN IF by_slug # {} THEN by_slug
       ELSE IF ~IsDigits(key) THEN {}
       ELSE {pk \in Published(blog) : pk = ParseInt(key)}

\* ---------------------------------------------------------------- actions
Init ==
    /\ now = 0
    /\ postings = << >>
    /\ next_pk = 1
    /\ inflight = [p \in Procs |-> Idle]
    /\ last = Op("init", 0, FALSE, <<>>, "none", 0)
    /\ applications = << >>
    /\ next_app_pk = 1
    /\ blog_posts = << >>

\* no slug of the form base, base-1, base-2, ... is in the store
NoSlugOfFamily(store, base_slug) ==
    /\ ~SlugExists(store, base_slug)
    /\ \A k \in 1..(MaxPostings + 1) : ~SlugExists(store, Suffixed(base_slug, k))

\* length of the run of back-to-back creates of one title with an empty slug
\* that started from a store free of the title's slug family
CreateStreak(title, slug) ==
    IF slug # <<>> THEN 0
    ELSE IF /\ last.op = "create" /\ last.raised = "none" /\ last.streak >= 1
            /\ last.pk \in DOMAIN postings /\ postings[last.pk].title = title
         THEN last.streak + 1
         ELSE IF NoSlugOfFamily(postings, slugify(title)) THEN 1 ELSE 0

\* length of the run of back-to-back sweep runs without --dry-run (at most 2)
SweepStreak(dry_run) ==
    IF dry_run THEN 0
    ELSE IF last.op = "handle" /\ ~last.dry_run /\ last.streak >= 1 THEN 2 ELSE 1

\* a posting is created (admin add form, objects.create): save() of a new row
CreatePosting(title, slug, is_active, expiration_date) ==
    /\ next_pk <= MaxPostings
    /\ LET row == PreSave(postings, Row(title, slug, is_active, expiration_date), now)
           streak == CreateStreak(title, slug)
       IN IF UniqueViolation(postings, next_pk, row)
          THEN /\ last' = Op("create", next_pk, is_active, slug, "IntegrityError", 0)
               /\ UNCHANGED <<postings, next_pk>>
          ELSE /\ postings' = Written(postings, next_pk, row)
               /\ next_pk' = next_pk + 1
               /\ last' = Op("create", next_pk, is_active, slug, "none", streak)
    /\ UNCHANGED <<now, inflight, applications, next_app_pk, blog_posts>>

\* a posting is edited in the admin and saved; the form may blank the slug
EditPosting(pk, title, clear_slug, is_active, expiration_date) ==
    /\ pk \in DOMAIN postings
    /\ LET slug == IF clear_slug THEN <<>> ELSE postings[pk].slug
           row == PreSave(postings, Row(title, slug, is_active, expiration_date), now)
       IN IF UniqueViolation(postings, pk, row)
          THEN /\ last' = Op("edit", pk, is_active, slug, "IntegrityError", 0)
               /\ UNCHANGED postings
          ELSE /\ postings' = Written(postings, pk, row)
               /\ last' = Op("edit", pk, is_active, slug, "none", 0)
    /\ UNCHANGED <<now, next_pk, inflight, applications, next_app_pk, blog_posts>>

\* the admin deletes a posting; on_delete=CASCADE removes its applications
DeletePosting(pk) ==
    /\ pk \in DOMAIN postings
    /\ postings' = [k \in DOMAIN postings \ {pk} |-> postings[k]]
    /\ applications' = [k \in {a \in DOMAIN applications :
                                  applications[a].job_posting # pk} |-> applications[k]]
    /\ last' = Op("delete", pk, FALSE, <<>>, "none", 0)
    /\ UNCHANGED <<now, next_pk, inflight, next_app_pk, blog_posts>>

\* a day passes
Tick ==
    /\ now < MaxTime
    /\ now' = now + 1
    /\ last' = Op("tick", 0, FALSE, <<>>, "none", 0)
    /\ UNCHANGED <<postings, next_pk, inflight, applications, next_app_pk, blog_posts>>

\* GET job-postings/
ListJobPostings ==
    /\ last' = [Op("list", 0, FALSE, <<>>, "none", 0)
                  EXCEPT !.result = JobPostingList(postings, now)]
    /\ UNCHANGED <<now, postings, next_pk, inflight, applications, next_app_pk, blog_posts>>

\* GET job-postings/<pk>/: the row pk of the detail queryset, or 404
RetrieveJobPosting(pk) ==
    /\ last' = [Op("detail", pk, FALSE, <<>>,
                   IF pk \in JobPostingDetail(postings, now) THEN "none" ELSE "Http404", 0)
                  EXCEPT !.result = JobPostingDetail(postings, now) \cap {pk}]
    /\ UNCHANGED <<now, postings, next_pk, inflight, applications, next_app_pk, blog_posts>>

\* views.deactivate_expired_job_postings()
deactivate_expired_job_postings ==
    /\ postings' = UpdateInactive(postings,
                      FilterActive(postings) \cap FilterLte(postings, "expiration_date", now))
    /\ last' = [Op("deactivate", 0, FALSE, <<>>, "none", 0)
                  EXCEPT !.result = FilterActive(postings)
                                      \cap FilterLte(postings, "expiration_date", now)]
    /\ UNCHANGED <<now, next_pk, inflight, applications, next_app_pk, blog_posts>>

\* one run of the expiry_jobs management command
RunSweep(dry_run, send_alerts, days_ahead, mail_ok) ==
    /\ LET r == handle(postings, now, dry_run, send_alerts, days_ahead, mail_ok)
       IN /\ postings' = r.store
          /\ last' = [Op("handle", 0, FALSE, <<>>, r.raised, SweepStreak(dry_run))
                        EXCEPT !.dry_run = dry_run, !.send_alerts = send_alerts,
                               !.days_ahead = days_ahead, !.mail_ok = mail_ok,
                               !.out = r.out]
    /\ UNCHANGED <<now, next_pk, inflight, applications, next_app_pk, blog_posts>>

\* the lifecycle of postings: the slug is left to save(), the title is fixed
Next ==
    \/ \E t \in PlainTitles, a \in BOOLEAN, e \in ExpirationDates :
          CreatePosting(t, <<>>, a, e)
    \/ \E pk \in DOMAIN postings, a \in BOOLEAN, e \in ExpirationDates :
          EditPosting(pk, postings[pk].title, FALSE, a, e)
    \/ \E pk \in DOMAIN postings : DeletePosting(pk)
    \/ Tick
    \/ ListJobPostings
    \/ \E pk \in 1..MaxPostings : RetrieveJobPosting(pk)
    \/ deactivate_expired_job_postings
    \/ \E d \in BOOLEAN, h \in DaysAheadChoices, m \in BOOLEAN : RunSweep(d, TRUE, h, m)
    \/ \E d \in BOOLEAN : RunSweep(d, FALSE, 7, TRUE)

Spec == Init /\ [][Next]_vars

\* slugs: postings are created and edited under any title, with the slug
\* left empty or prepopulated from the title as the admin form does
NextSlug ==
    \/ \E t \in Titles, s \in BOOLEAN :
          CreatePosting(t, IF s THEN slugify(t) ELSE <<>>, TRUE, NULL)
    \/ \E pk \in DOMAIN postings, t \in Titles, c \in BOOLEAN :
          EditPosting(pk, t, c, TRUE, NULL)
    \/ \E pk \in DOMAIN postings : DeletePosting(pk)

SpecSlug == Init /\ [][NextSlug]_vars

\* concurrent creates: save() runs its slug scan and its expiry check
\* (lines 43-54) in one step and its INSERT (line 56) in a later one
Busy == {p \in Procs : inflight[p] # Idle}

BeginSave(p, title, is_active, expiration_date) ==
    /\ inflight[p] = Idle
    /\ next_pk + Cardinality(Busy) <= MaxPostings
    /\ inflight' = [inflight EXCEPT ![p] =
          Scanned(PreSave(postings, Row(title, <<>>, is_active, expiration_date), now))]
    /\ last' = Op("scan", 0, is_active, <<>>, "none", 0)
    /\ UNCHANGED <<now, postings, next_pk, applications, next_app_pk, blog_posts>>

FinishSave(p) ==
    /\ inflight[p] # Idle
    /\ LET row == inflight[p].row
       IN IF UniqueViolation(postings, next_pk, row)
          THEN /\ last' = Op("create", next_pk, row.is_active, <<>>, "IntegrityError", 0)
               /\ UNCHANGED <<postings, next_pk>>
          ELSE /\ postings' = Written(postings, next_pk, row)
               /\ next_pk' = next_pk + 1
               /\ last' = Op("create", next_pk, row.is_active, <<>>, "none", 0)
    /\ inflight' = [inflight EXCEPT ![p] = Idle]
    /\ UNCHANGED <<now, applications, next_app_pk, blog_posts>>

NextConc ==
    \/ \E p \in Procs, t \in Titles, a \in BOOLEAN, e \in ExpirationDates :
          BeginSave(p, t, a, e)
    \/ \E p \in Procs : FinishSave(p)

SpecConc == Init /\ [][NextConc]_vars

\* POST job-applications/
submit_job_application(req, outcome) ==
    /\ ValidationErrors(postings, req) = {} => next_app_pk <= MaxApplications
    /\ LET r == SubmitResult(postings, applications, next_app_pk, req, outcome)
       IN /\ applications' = r.apps
          /\ next_app_pk' = IF r.http = 201 THEN next_app_pk + 1 ELSE next_app_pk
          /\ last' = [Op("submit", IF r.http = 201 THEN next_app_pk ELSE 0,
                         FALSE, <<>>, "none", 0)
                        EXCEPT !.http = r.http, !.errors = r.errors, !.sent = r.sent,
                               !.req = req]
    /\ UNCHANGED <<now, postings, next_pk, inflight, blog_posts>>

\* GET job-applications/<id>/resume/
serve_resume(application_id) ==
    /\ last' = [Op("resume", application_id, FALSE, <<>>,
                   IF application_id \in DOMAIN applications THEN "none" ELSE "Http404", 0)
                  EXCEPT !.http = IF application_id \in DOMAIN applications
                                  THEN 200 ELSE 404]
    /\ UNCHANGED <<now, postings, next_pk, inflight, applications, next_app_pk,
                   blog_posts>>

\* the operator changes an application's status in the admin list
AdminSetStatus(pk, status) ==
    /\ pk \in DOMAIN applications
    /\ applications' = [applications EXCEPT ![pk].status = status]
    /\ last' = Op("admin_status", pk, FALSE, <<>>, "none", 0)
    /\ UNCHANGED <<now, postings, next_pk, inflight, next_app_pk, blog_posts>>

WellFormed(j, x, st) == Request(j, TRUE, <<"a", "@", "b", ".", "c", "o">>, TRUE, x, st)

\* a well-formed request for posting j, the requests that differ from it in
\* one field, and one that is wrong in every field
Requests(j, st) ==
    LET good == WellFormed(j, "pdf", st)
    IN {[good EXCEPT !.full_name = FALSE], [good EXCEPT !.phone = FALSE],
        Request(j, FALSE, <<>>, FALSE, "", st)}
         \cup {[good EXCEPT !.email = e] : e \in Emails}
         \cup {[good EXCEPT !.resume = x] : x \in ResumeExtensions}

\* applications for one posting: the posting is created, time passes,
\* applicants submit and download, the operator reviews
NextApp ==
    \/ \E a \in BOOLEAN, e \in ExpirationDates :
          next_pk = 1 /\ CreatePosting(<<"I", "n">>, <<>>, a, e)
    \/ Tick
    \/ \E j \in 1..MaxPostings, st \in SuppliedStatuses :
          \E req \in Requests(j, st) : submit_job_application(req, "ok")
    \/ \E st \in SuppliedStatuses, o \in MailOutcomes :
          submit_job_application(WellFormed(1, "pdf", st), o)
    \/ \E pk \in 1..MaxApplications : serve_resume(pk)
    \/ \E pk \in DOMAIN applications, st \in AdminStatuses : AdminSetStatus(pk, st)

SpecApp == Init /\ [][NextApp]_vars

\* the sweep beside applications: postings are created, time passes, one
\* application is submitted and reviewed, the helper and the command run
NextFrame ==
    \/ \E a \in BOOLEAN, e \in ExpirationDates :
          CreatePosting(<<"I", "n">>, <<>>, a, e)
    \/ Tick
    \/ \E j \in DOMAIN postings :
          applications = << >> /\ submit_job_application(WellFormed(j, "pdf", ""), "ok")
    \/ \E pk \in DOMAIN applications, st \in AdminStatuses : AdminSetStatus(pk, st)
    \/ deactivate_expired_job_postings
    \/ \E d \in BOOLEAN : RunSweep(d, FALSE, 7, TRUE)

SpecFrame == Init /\ [][NextFrame]_vars

\* the operator adds a blog post in the admin; the slug is unique
AddBlogPost(row) ==
    /\ Cardinality(DOMAIN blog_posts) < MaxBlogPosts
    /\ \A k \in DOMAIN blog_posts : blog_posts[k].slug # row.slug
    /\ LET pk == Cardinality(DOMAIN blog_posts) + 1
       IN /\ blog_posts' = [k \in DOMAIN blog_posts \cup {pk} |->
                               IF k = pk THEN row ELSE blog_posts[k]]
          /\ last' = Op("blog_add", pk, FALSE, <<>>, "none", 0)
    /\ UNCHANGED <<now, postings, next_pk, inflight, applications, next_app_pk>>

\* the operator publishes or withdraws a blog post
SetPublished(pk, is_published) ==
    /\ pk \in DOMAIN blog_posts
    /\ blog_posts' = [blog_posts EXCEPT ![pk].is_published = is_published]
    /\ last' = Op("blog_publish", pk, FALSE, <<>>, "none", 0)
    /\ UNCHANGED <<now, postings, next_pk, inflight, applications, next_app_pk>>

\* GET blog-posts/
ListBlogPosts(category, author, search) ==
    /\ last' = [Op("blog_list", 0, FALSE, <<>>, "none", 0)
                  EXCEPT !.result = BlogPostList(blog_posts, category, author, search)]
    /\ UNCHANGED <<now, postings, next_pk, inflight, applications, next_app_pk,
                   blog_posts>>

\* GET blog-posts/<slug>/
RetrieveBlogPost(key) ==
    /\ LET found == get_object(blog_posts, key)
       IN last' = [Op("blog_detail", 0, FALSE, <<>>,
                      IF found = {} THEN "Http404" ELSE "none", 0)
                     EXCEPT !.result = found, !.key = key]
    /\ UNCHANGED <<now, postings, next_pk, inflight, applications, next_app_pk,
                   blog_posts>>

NextBlog ==
    \/ \E sl \in BlogSlugs, pub \in BOOLEAN, c \in BlogCategories,
          t \in BlogTexts, x \in BlogTexts : AddBlogPost(BlogRow(sl, pub, c, t, x))
    \/ \E pk \in DOMAIN blog_posts, pub \in BOOLEAN : SetPublished(pk, pub)
    \/ \E c \in CategoryParams, a \in TextParams, q \in TextParams :
          ListBlogPosts(c, a, q)
    \/ \E key \in BlogSlugs : RetrieveBlogPost(key)

SpecBlog == Init /\ [][NextBlog]_vars

\* ------------------------------------------------------------ properties
SavedOk == last.op \in {"create", "edit"} /\ last.raised = "none"

\* C1: a save at time now persists is_active = FALSE when expiration_date is
\* set and <= now, whatever the caller supplied, and persists the supplied
\* is_active unchanged when expiration_date is NULL or > now
C1_SaveForcesInactiveWhenExpired ==
    SavedOk =>
        LET p == postings[last.pk]
        IN IF p.expiration_date # NULL /\ p.expiration_date <= now
           THEN p.is_active = FALSE
           ELSE p.is_active = last.is_active

\* a posting was just created with is_active = TRUE and an expiration_date
\* equal to now, and it is stored inactive
C1_Witness ==
    /\ last.op = "create" /\ last.raised = "none" /\ last.is_active
    /\ postings[last.pk].expiration_date = now
    /\ ~postings[last.pk].is_active

ExpiredImpliesInactive(store, t) ==
    \A pk \in DOMAIN store :
        (store[pk].expiration_date # NULL /\ store[pk].expiration_date <= t)
            => ~store[pk].is_active

\* C2 as stated: in every reachable state, every posting whose
\* expiration_date is set and in the past has is_active = FALSE
C2_ExpiredNeverActive ==
    \A pk \in DOMAIN postings :
        (postings[pk].expiration_date # NULL /\ postings[pk].expiration_date < now)
            => ~postings[pk].is_active

\* C2 amended: no write (create, edit, delete, deactivation, sweep run) makes
\* an expired posting active: a step that leaves the clock alone keeps
\* "expiration_date set and <= now implies inactive" when it held before
C2_WritesKeepExpiredInactive ==
    [][(now' = now /\ ExpiredImpliesInactive(postings, now))
          => ExpiredImpliesInactive(postings', now')]_vars

\* an edit asked for is_active = TRUE on a posting whose expiration_date has
\* passed, beside a second posting, and the store has no expired active posting
C2_Witness ==
    /\ last.op = "edit" /\ last.raised = "none" /\ last.is_active
    /\ postings[last.pk].expiration_date # NULL
    /\ postings[last.pk].expiration_date < now
    /\ Cardinality(DOMAIN postings) >= 2
    /\ ExpiredImpliesInactive(postings, now)

\* isCurrentlyOpen(posting, now)
CurrentlyOpen(store, t) ==
    {pk \in DOMAIN store :
        store[pk].is_active
          /\ (store[pk].expiration_date = NULL \/ store[pk].expiration_date > t)}

\* C3: the listing query and the detail query return exactly the postings
\* with is_active = TRUE and expiration_date NULL or > now
C3_QueriesReturnExactlyOpen ==
    /\ last.op = "list" => last.result = CurrentlyOpen(postings, now)
    /\ last.op = "detail" =>
          /\ last.result = CurrentlyOpen(postings, now) \cap {last.pk}
          /\ (last.raised = "none") <=> (last.pk \in CurrentlyOpen(postings, now))

\* the listing ran on a store holding an open posting and a posting whose
\* is_active is still TRUE although its expiration_date has passed
C3_Witness ==
    /\ last.op = "list"
    /\ last.result # {}
    /\ \E pk \in DOMAIN postings :
          /\ postings[pk].is_active
          /\ postings[pk].expiration_date # NULL
          /\ postings[pk].expiration_date <= now
          /\ pk \notin last.result

C4_Digits == <<"1", "2", "3", "4", "5", "6", "7", "8", "9">>

\* the slug expected for the j-th posting of a run of same-title creates
C4_Expected(base, j) == IF j = 1 THEN base ELSE base \o <<"-", C4_Digits[j - 1]>>

C5_SlugKeptOnceAssigned ==
    [][\A pk \in DOMAIN postings \cap DOMAIN postings' :
          (/\ postings[pk].slug # <<>>
           /\ ~(last'.op = "edit" /\ last'.pk = pk /\ last'.slug = <<>>))
             => postings'[pk].slug = postings[pk].slug]_vars

\* a posting with the slug "in" was saved under a title whose slug is not
\* "in" while the store holds another posting, and it still has the slug "in"
C5_Witness ==
    /\ last.op = "edit" /\ last.raised = "none" /\ last.slug = <<"i", "n">>
    /\ postings[last.pk].title = <<"I", "n", " ", "1">>
    /\ postings[last.pk].slug = <<"i", "n">>
    /\ Cardinality(DOMAIN postings) >= 2

\* C6 as stated: interleaved creates all succeed and the stored slugs are
\* pairwise distinct
C6_ConcurrentCreatesAllSucceed ==
    /\ last.op = "create" => last.raised = "none"
    /\ \A i, j \in DOMAIN postings : i # j => postings[i].slug # postings[j].slug

EligibleForSweep(store, t) ==
    {pk \in DOMAIN store :
        store[pk].is_active /\ store[pk].expiration_date # NULL
          /\ store[pk].expiration_date <= t}

Reported(msg) == {last.out[i].n : i \in {j \in DOMAIN last.out : last.out[j].msg = msg}}

\* C7 as stated: after a sweep run without dry-run no posting is left active
\* with expiration_date <= now, and the summary's expired count is at least
\* the number processed
C7_SweepDeactivatesExpired ==
    (last.op = "handle" /\ ~last.dry_run) =>
        /\ EligibleForSweep(postings, now) = {}
        /\ \E e \in Reported("total_expired"), n \in Reported("processed") : e >= n

\* C8: a sweep run with dry-run changes the is_active value of no posting
C8_DryRunKeepsIsActive ==
    [][(last'.op = "handle" /\ last'.dry_run) =>
          /\ DOMAIN postings' = DOMAIN postings
          /\ \A pk \in DOMAIN postings :
                postings'[pk].is_active = postings[pk].is_active]_vars

\* a dry run with --send-alerts ended on a store that holds a posting
\* eligible for deactivation
C8_Witness ==
    /\ last.op = "handle" /\ last.dry_run /\ last.send_alerts
    /\ EligibleForSweep(postings, now) # {}

\* C9 as stated: of two sweep runs without dry-run in immediate succession,
\* the first deactivates the eligible set and the second changes nothing and
\* reports zero postings processed
C9_SecondRunProcessesNothing ==
    (last.op = "handle" /\ last.streak = 2) =>
        /\ EligibleForSweep(postings, now) = {}
        /\ Reported("processed") = {0}

\* C10 as stated: the sweep command never raises
C10_SweepNeverRaises ==
    last.op = "handle" => last.raised = "none"

\* postings the digest of a run at time t with horizon days_ahead is about
ExpiringSoon(store, t, days_ahead) ==
    {pk \in DOMAIN store :
        store[pk].is_active /\ store[pk].expiration_date # NULL
          /\ store[pk].expiration_date > t
          /\ store[pk].expiration_date <= t + days_ahead}

\* C11 as stated: when the mail transport fails while a sweep run with
\* --send-alerts sends its digest, the failure is caught and reported, the
\* deactivations of the run stand and the summary is still emitted
C11_AlertFailureIsNotFatal ==
    (/\ last.op = "handle" /\ last.send_alerts /\ ~last.mail_ok
     /\ ExpiringSoon(postings, now, last.days_ahead) # {}) =>
        /\ last.raised = "none"
        /\ Reported("alert_failed") # {}
        /\ ~last.dry_run => EligibleForSweep(postings, now) = {}
        /\ Reported("active") # {} /\ Reported("total_expired") # {}
        /\ Reported("processed") # {}

\* C12: an application stored by the submit operation has status "pending"
\* whatever status the request carried, and no applicant-facing call
\* (submit, resume download) changes the status of a stored application
C12_StatusIsServerControlled ==
    [][last'.op \in {"submit", "resume"} =>
          /\ \A k \in DOMAIN applications :
                /\ k \in DOMAIN applications'
                /\ applications'[k].status = applications[k].status
          /\ \A k \in DOMAIN applications' \ DOMAIN applications :
                applications'[k].status = "pending"]_vars

\* a request carrying status "hired" was accepted and stored as "pending"
\* beside an application the operator has set to "reviewed"
C12_Witness ==
    /\ last.op = "submit" /\ last.http = 201 /\ last.req.status = "hired"
    /\ applications[last.pk].status = "pending"
    /\ \E k \in DOMAIN applications : applications[k].status = "reviewed"

\* C13: once the submit operation has stored the application, the answer is
\* 201 and the record is in the table, whatever happens to the sends
C13_MailFailureKeepsCreated ==
    [][(last'.op = "submit" /\ DOMAIN applications' # DOMAIN applications) =>
          /\ last'.http = 201
          /\ last'.raised = "none"
          /\ last'.pk \in DOMAIN applications'
          /\ applications'[last'.pk].job_posting = last'.req.job_posting]_vars

\* a submission was answered 201 and is stored although the admin
\* notification failed
C13_Witness ==
    /\ last.op = "submit" /\ last.http = 201
    /\ last.pk \in DOMAIN applications
    /\ \E i \in DOMAIN last.sent : last.sent[i].to = "admin" /\ ~last.sent[i].ok

\* the fields of a request that are missing or malformed
C14_BadFields(req) ==
    {f \in {"full_name"} : req.full_name = FALSE}
      \cup {f \in {"phone"} : req.phone = FALSE}
      \cup {f \in {"email"} : req.email # <<"a", "@", "b", ".", "c", "o">>}
      \cup {f \in {"resume"} : req.resume \notin {"pdf", "PDF", "doc", "docx"}}

\* C14: a submission with a missing required field, a malformed e-mail or a
\* resume extension other than pdf, doc, docx is answered 400 with an error
\* map naming those fields, stores nothing and sends nothing
C14_InvalidSubmissionRejected ==
    [][(last'.op = "submit" /\ C14_BadFields(last'.req) # {}) =>
          /\ last'.http = 400
          /\ C14_BadFields(last'.req) \subseteq last'.errors
          /\ applications' = applications
          /\ last'.sent = <<>>]_vars

\* a request whose only fault is the resume extension "exe", for an existing
\* posting, was answered 400 with an error on the resume field while an
\* application is stored
C14_Witness ==
    /\ last.op = "submit" /\ last.http = 400
    /\ last.req.resume = "exe"
    /\ last.errors = {"resume"}
    /\ applications # << >>

\* C15 as stated: an application is stored only for a posting that is
\* currently open
C15_OnlyOpenPostingsAcceptApplications ==
    (last.op = "submit" /\ last.http = 201) =>
        last.req.job_posting \in CurrentlyOpen(postings, now)

\* C18 as stated: after a successful submission each of the two sends has
\* been attempted exactly once
C18_BothSendsAttempted ==
    (last.op = "submit" /\ last.http = 201) =>
        \A to \in {"applicant", "admin"} :
            Cardinality({i \in DOMAIN last.sent : last.sent[i].to = to}) = 1

\* the number a detail key stands for (0 when it is not a number)
C16_KeyNumber(key) == CASE key = <<"1">> -> 1
                        [] key = <<"2">> -> 2
                        [] OTHER -> 0

C16_KeyOfUnpublished ==
    /\ last.op = "blog_detail"
    /\ \E pk \in DOMAIN blog_posts :
          blog_posts[pk].slug = last.key /\ ~blog_posts[pk].is_published

C16_OnlyPublishedReturned ==
    last.op \in {"blog_detail", "blog_list"} =>
        \A pk \in last.result : pk \in DOMAIN blog_posts /\ blog_posts[pk].is_published

C17_SweepOnlyFlipsIsActive ==
    [][last'.op \in {"handle", "deactivate"} =>
          /\ applications' = applications
          /\ next_app_pk' = next_app_pk
          /\ blog_posts' = blog_posts
          /\ next_pk' = next_pk
          /\ DOMAIN postings' = DOMAIN postings
          /\ \A pk \in DOMAIN postings :
                \/ postings'[pk] = postings[pk]
                \/ /\ pk \in EligibleForSweep(postings, now)
                   /\ postings'[pk] = [postings[pk] EXCEPT !.is_active = FALSE]]_vars

\* the helper has just deactivated a posting that has an application the
\* operator had set to "reviewed", beside a posting it did not touch
C17_Witness ==
    /\ last.op = "deactivate"
    /\ \E pk \in last.result :
          /\ ~postings[pk].is_active
          /\ \E k \in DOMAIN applications :
                applications[k].job_posting = pk /\ applications[k].status = "reviewed"
    /\ DOMAIN postings \ last.result # {}

ReportedIn(out, msg) == {out[i].n : i \in {j \in DOMAIN out : out[j].msg = msg}}

\* C19 as stated: the number a sweep run without dry-run reports as
\* processed is the number of postings that run turned from active to
\* inactive
C19_ProcessedEqualsDeactivated ==
    [][(last'.op = "handle" /\ ~last'.dry_run) =>
          ReportedIn(last'.out, "processed") =
              {Cardinality({pk \in DOMAIN postings :
                              /\ postings[pk].is_active
                              /\ pk \in DOMAIN postings'
                              /\ ~postings'[pk].is_active})}]_vars

====
